---------------------------- MODULE Spec2Model ----------------------------
(***************************************************************************)
(* A model of the mslibos hostcall boundary: the msvisor launcher's        *)
(* isolation lifecycle (bins/msvisor/src/main.rs), the fatfs service's      *)
(* per-thread file table (common_service/fatfs/src/lib.rs), the typed      *)
(* buffer channel (ms_std/src/agent.rs), the hostcall routing lookup        *)
(* (ms_hostcall/src/lib.rs) and Read::read_to_end (ms_std/src/io.rs).       *)
(***************************************************************************)
EXTENDS Integers, Sequences, FiniteSets, TLC

(***************************************************************************)
(* Bounds of the model.                                                    *)
(***************************************************************************)
MaxIsols == 3     \* isolations given on the command line
MaxTable == 3     \* slots a thread's file table may grow to
MaxFileLen == 2   \* bytes a file of the image may grow to
MaxCalls == 5     \* fatfs hostcalls issued in one behaviour
MaxBufs == 2      \* buffers the buffer service hands out in one behaviour
MaxBufOps == 5    \* DataBuffer operations in one behaviour
MaxRoutes == 2    \* belong_to() lookups in one behaviour
MaxThreadCalls == 4   \* fatfs hostcalls begun in one behaviour, seen step by step
MaxReads == 3     \* read() calls a reader answers before it reports the end

VARIABLES
    \* ---- msvisor launcher (main.rs) ----
    args,          \* parsed command line: [preload, metrics]
    isols,         \* Vec<Isolation>, in construction order: sequence of [id]
    mainPc,        \* position of the main thread
    idx,           \* loop index of the main thread's current loop (1-based)
    preloaded,     \* indices of the isolations whose preload() returned Ok
    preloadFailed, \* history: indices of the isolations whose preload() returned Err
    thread,        \* per isolation index: state of its thread
    joinHandles,   \* Vec<Option<JoinHandle>>: "unset" | "some" | "taken"
    appResult,     \* app_result of the current join iteration
    abortCause,    \* which expect() ended the process, "" if none
    log,           \* what the launcher has emitted: sequence of [kind, id]
    finishOrder,   \* history: isolation indices in order of thread completion
    spawnCount,    \* history: times a thread was spawned per isolation
    joinCount,     \* history: times join() was called per isolation
    \* ---- fatfs service (common_service/fatfs/src/lib.rs) ----
    FTABLE,        \* per thread: Vec<Option<File>>, a File being [name, pos]
    FS_RAW,        \* per thread: the root directory of its image, name -> bytes or NoEntry
    ret,           \* the last fatfs hostcall and what it returned
    calls,         \* number of fatfs hostcalls issued so far
    handles,       \* history, per thread: the fds fatfs_open returned, in order
    closed,        \* history, per thread: the fds fatfs_close returned Ok for
    \* ---- typed buffer channel (ms_std/src/agent.rs) ----
    slotTab,       \* buffer service: slot name -> Option<[addr, fingerprint]>
    heap,          \* buffer memory, by address 1..: [live, val]
    bufs,          \* the DataBuffer values made so far: [ctx, slot, addr, used, ty, state]
    deallocs,      \* history: the buffer_dealloc hostcalls, as [addr, buf]
    sent,          \* history, by address: the value last stored through a DataBuffer
    bufRet,        \* the last with_slot / from / from_buffer_slot and its outcome
    bufOps,        \* number of DataBuffer operations so far
    \* ---- hostcall routing (ms_hostcall/src/lib.rs) ----
    routed,        \* history: the resolved lookups, as [ctx, id, service]
    lastRoute,     \* the last belong_to() call and its outcome
    \* ---- fatfs calls seen step by step, thread by thread ----
    inflight,      \* per thread: the &mut File get_file_mut() handed out, if in use
    lastArgs,      \* the thread that made the last fatfs step, and its buffer length
    opened,        \* history, per thread: the O_CREAT flag each handle was opened with
    lastWrite,     \* history: the last completed fatfs_write
    \* ---- Read::read_to_end (ms_std/src/io.rs) ----
    reader,        \* what the reader's next read() calls will give, in order
    vec,           \* buf: the caller's Vec<u8>
    size,          \* the local `size`
    buffer,        \* the local scratch `buffer`
    rtePc,         \* position in read_to_end: "call" | "loop" | "done" | "panicked"
    rteRet,        \* what read_to_end returned: None or Some(n)
    prior,         \* history: the caller's Vec<u8> at the call
    chunks         \* history: the chunks read() has returned, in order

rtVars == <<args, isols, mainPc, idx, preloaded, preloadFailed, thread, joinHandles, appResult,
            abortCause, log, finishOrder, spawnCount, joinCount>>

fsVars == <<FTABLE, FS_RAW, ret, calls, handles, closed>>

bufVars == <<slotTab, heap, bufs, deallocs, sent, bufRet, bufOps>>

\* The launcher's variables a service call leaves alone (a panic in a call
\* changes thread and finishOrder).
rtRest == <<args, isols, mainPc, idx, preloaded, preloadFailed, joinHandles,
            appResult, abortCause, log, spawnCount, joinCount>>

routeVars == <<routed, lastRoute>>

thVars == <<inflight, lastArgs, opened, lastWrite>>

rteVars == <<reader, vec, size, buffer, rtePc, rteRet, prior, chunks>>

vars == <<rtVars, fsVars, bufVars, routeVars, thVars, rteVars>>

-----------------------------------------------------------------------------
(***************************************************************************)
(* msvisor launcher                                                        *)
(***************************************************************************)

\* clap::ValueEnum MetricOpt, by its display name.
MetricOpt == {"none", "all", "mem"}

\* What a thread's closure can end with: isol.run() returns Ok, returns
\* Err, or the thread unwinds (a panic in the workload or in a service).
RunOutcomes == {"returned_ok", "returned_err", "panicked"}

Finished(i) == thread[i] \in RunOutcomes

Indices == 1..Len(isols)

\* Isolation::new gives each isolation its id at construction.
IsolationNew(i) == [id |-> i]

\* The main thread panics in an expect(): the process ends.
Abort(cause) ==
    /\ mainPc' = "aborted"
    /\ abortCause' = cause

InitRuntime ==
    /\ args \in [preload : BOOLEAN, metrics : MetricOpt]
    /\ \E n \in 1..MaxIsols : isols = [i \in 1..n |-> IsolationNew(i)]
    /\ mainPc = "preload"
    /\ idx = 1
    /\ preloaded = {}
    /\ preloadFailed = {}
    /\ thread = [i \in Indices |-> "unspawned"]
    /\ joinHandles = [i \in Indices |-> "unset"]
    /\ appResult = "none"
    /\ abortCause = ""
    /\ log = <<>>
    /\ finishOrder = <<>>
    /\ spawnCount = [i \in Indices |-> 0]
    /\ joinCount = [i \in Indices |-> 0]

\* if args.preload { for (idx, isol) in isols.iter().enumerate() { ... } }
PreloadWanted == args.preload

\* A launcher that drops preload()'s result instead of expecting it.
PreloadExpectPasses_Ignored(ok) == TRUE

\* Whether expect("preload failed.") gets through, given whether preload()
\* returned Ok.
PreloadExpectPasses(ok) == ok

\* One iteration of the preload loop: isol.preload(..).expect("preload failed.")
PreloadStep ==
    /\ mainPc = "preload"
    /\ PreloadWanted
    /\ idx <= Len(isols)
    /\ \E ok \in BOOLEAN :
          /\ preloaded' = IF ok THEN preloaded \cup {idx} ELSE preloaded
          /\ preloadFailed' = IF ok THEN preloadFailed ELSE preloadFailed \cup {idx}
          /\ IF PreloadExpectPasses(ok)
             THEN /\ idx' = idx + 1
                  /\ UNCHANGED <<mainPc, abortCause>>
             ELSE /\ Abort("preload failed.")
                  /\ UNCHANGED idx
    /\ UNCHANGED <<args, isols, thread, joinHandles, appResult, log, finishOrder,
                   spawnCount, joinCount>>

\* The preload block is over (or was skipped): go on to spawning.
PreloadEnd ==
    /\ mainPc = "preload"
    /\ (~PreloadWanted \/ idx > Len(isols))
    /\ mainPc' = "spawn"
    /\ idx' = 1
    /\ UNCHANGED <<args, isols, preloaded, preloadFailed, thread, joinHandles,
                   appResult, abortCause, log, finishOrder, spawnCount, joinCount>>

\* One element of isol_handles.map(..).collect():
\* Some(builder.spawn(closure).expect("spawn thread failed?"))
SpawnStep ==
    /\ mainPc = "spawn"
    /\ idx <= Len(isols)
    /\ \E ok \in BOOLEAN :
          IF ok
          THEN /\ thread' = [thread EXCEPT ![idx] = "running"]
               /\ joinHandles' = [joinHandles EXCEPT ![idx] = "some"]
               /\ spawnCount' = [spawnCount EXCEPT ![idx] = @ + 1]
               /\ idx' = idx + 1
               /\ UNCHANGED <<mainPc, abortCause>>
          ELSE /\ Abort("spawn thread failed?")
               /\ UNCHANGED <<thread, joinHandles, spawnCount, idx>>
    /\ UNCHANGED <<args, isols, preloaded, preloadFailed, appResult, log,
                   finishOrder, joinCount>>

\* collect() has consumed the iterator: the join loop starts.
SpawnEnd ==
    /\ mainPc = "spawn"
    /\ idx > Len(isols)
    /\ mainPc' = "join"
    /\ idx' = 1
    /\ UNCHANGED <<args, isols, preloaded, preloadFailed, thread, joinHandles,
                   appResult, abortCause, log, finishOrder, spawnCount, joinCount>>

\* The closure of isolation i's thread ends:
\* get_isol(isol_handle).expect("isol don't exist?").run()
IsolRun(i) ==
    /\ mainPc \notin {"aborted", "done"}
    /\ thread[i] = "running"
    /\ \E r \in RunOutcomes : thread' = [thread EXCEPT ![i] = r]
    /\ finishOrder' = Append(finishOrder, i)
    /\ UNCHANGED <<args, isols, mainPc, idx, preloaded, preloadFailed, joinHandles,
                   appResult, abortCause, log, spawnCount, joinCount>>

\* A join loop that walks the handles backwards.
JoinTarget_Reversed == Len(isols) + 1 - idx

\* A join loop whose index lags one behind after its first iteration.
JoinTarget_Lagging == IF idx > 1 THEN idx - 1 ELSE idx

\* The isolation the join loop's current iteration is about: enumerate()
\* over join_handles pairs position idx with the handle and the isolation
\* of that same position.
JoinTarget == idx

\* A launcher that also treats an Err returned by the entry point as fatal.
JoinExpectPasses_ErrFatal(r) == r = "returned_ok"

\* Whether join().expect("join failed") gets through: join() is Err exactly
\* when the thread panicked.
JoinExpectPasses(r) == r # "panicked"

\* let join_handle = join_handle.take();
\* let app_result = join_handle.unwrap().join().expect("join failed");
JoinThread ==
    /\ mainPc = "join"
    /\ idx <= Len(isols)
    /\ LET i == JoinTarget IN
       IF joinHandles[i] # "some"
       THEN \* Option::unwrap on None
            /\ Abort("unwrap on None")
            /\ UNCHANGED <<joinHandles, joinCount, appResult>>
       ELSE /\ Finished(i)              \* join() blocks until the thread ends
            /\ joinHandles' = [joinHandles EXCEPT ![i] = "taken"]
            /\ joinCount' = [joinCount EXCEPT ![i] = @ + 1]
            /\ IF JoinExpectPasses(thread[i])
               THEN /\ appResult' = thread[i]
                    /\ mainPc' = "log"
                    /\ UNCHANGED abortCause
               ELSE /\ Abort("join failed")
                    /\ UNCHANGED appResult
    /\ UNCHANGED <<args, isols, idx, preloaded, preloadFailed, thread, log,
                   finishOrder, spawnCount>>

\* if let Err(e) = app_result { log::error!("isol{} run failed. err={}", isol.id, e) }
LogResult ==
    /\ mainPc = "log"
    /\ log' = IF appResult = "returned_err"
              THEN Append(log, [kind |-> "error", id |-> isols[JoinTarget].id])
              ELSE log
    /\ mainPc' = "metrics"
    /\ UNCHANGED <<args, isols, idx, preloaded, preloadFailed, thread, joinHandles,
                   appResult, abortCause, finishOrder, spawnCount, joinCount>>

\* A launcher that reports in mode "all" only.
MetricsWanted_OnlyAll == args.metrics = "all"

\* !matches!(args.metrics, MetricOpt::None)
MetricsWanted == args.metrics # "none"

\* if ... { isol.metric.analyze(&args.metrics.to_analyze()); }  and the
\* iteration ends.
AnalyzeMetrics ==
    /\ mainPc = "metrics"
    /\ log' = IF MetricsWanted
              THEN Append(log, [kind |-> "metrics", id |-> isols[JoinTarget].id])
              ELSE log
    /\ appResult' = "none"
    /\ idx' = idx + 1
    /\ mainPc' = "join"
    /\ UNCHANGED <<args, isols, preloaded, preloadFailed, thread, joinHandles,
                   abortCause, finishOrder, spawnCount, joinCount>>

\* The join loop is over: main returns.
JoinEnd ==
    /\ mainPc = "join"
    /\ idx > Len(isols)
    /\ mainPc' = "done"
    /\ UNCHANGED <<args, isols, idx, preloaded, preloadFailed, thread, joinHandles,
                   appResult, abortCause, log, finishOrder, spawnCount, joinCount>>

NextRuntime ==
    \/ PreloadStep
    \/ PreloadEnd
    \/ SpawnStep
    \/ SpawnEnd
    \/ \E i \in Indices : IsolRun(i)
    \/ JoinThread
    \/ LogResult
    \/ AnalyzeMetrics
    \/ JoinEnd

\* The launcher with n isolations, all threads spawned and running, the main
\* thread blocked in the first join: the state the services are used in.
RuntimeRunning(n) ==
    /\ args = [preload |-> FALSE, metrics |-> "none"]
    /\ isols = [i \in 1..n |-> IsolationNew(i)]
    /\ mainPc = "join"
    /\ idx = 1
    /\ preloaded = {}
    /\ preloadFailed = {}
    /\ thread = [i \in 1..n |-> "running"]
    /\ joinHandles = [i \in 1..n |-> "some"]
    /\ appResult = "none"
    /\ abortCause = ""
    /\ log = <<>>
    /\ finishOrder = <<>>
    /\ spawnCount = [i \in 1..n |-> 1]
    /\ joinCount = [i \in 1..n |-> 0]

-----------------------------------------------------------------------------
(***************************************************************************)
(* fatfs service                                                           *)
(*                                                                         *)
(* FS_RAW and FTABLE are thread_local!: every isolation thread has its own *)
(* FileSystem over its image and its own Mutex<Vec<Option<File>>>.  An     *)
(* Option is a sequence of length 0 (None) or 1 (Some).  The fatfs crate's *)
(* File is its directory entry's name and its offset; its bytes are those  *)
(* of the image.                                                           *)
(***************************************************************************)

None == <<>>
Some(x) == <<x>>

\* File names and bytes the hostcalls are tried with.
Names == {"a", "b"}
Bytes == {65, 66}

\* Buffers a write is tried with, buffer lengths a read is tried with.
WriteBufs == {<<>>} \cup {<<b>> : b \in Bytes} \cup {<<65, 66>>}
ReadLens == {1, MaxFileLen}

\* Fd values the hostcalls are tried with: every slot and one past the last.
Fds == 0..MaxTable

Min(a, b) == IF a < b THEN a ELSE b

\* The image every thread starts from: file "a" is there, "b" is not.
InitImage == [p \in Names |-> IF p = "a" THEN Some(<<65, 66>>) ELSE None]

NoCall == [t |-> 0, op |-> "none", fd |-> 0, res |-> "none", n |-> 0, data |-> <<>>]

InitFatfs ==
    /\ FTABLE = [t \in Indices |-> <<>>]
    /\ FS_RAW = [t \in Indices |-> InitImage]
    /\ ret = NoCall
    /\ calls = 0
    /\ handles = [t \in Indices |-> <<>>]
    /\ closed = [t \in Indices |-> {}]

\* A hostcall can be issued by a running isolation thread.
CanCall(t) ==
    /\ thread[t] = "running"
    /\ mainPc \notin {"aborted", "done"}
    /\ calls < MaxCalls

\* An expect()/panic!() in the service unwinds the calling thread.
ServicePanic(t, op, fd) ==
    /\ thread' = [thread EXCEPT ![t] = "panicked"]
    /\ finishOrder' = Append(finishOrder, t)
    /\ ret' = [t |-> t, op |-> op, fd |-> fd, res |-> "Panic", n |-> 0, data |-> <<>>]
    /\ calls' = calls + 1

\* The hostcall returns to the isolation.
ServiceReturn(t, op, fd, res, n, data) ==
    /\ ret' = [t |-> t, op |-> op, fd |-> fd, res |-> res, n |-> n, data |-> data]
    /\ calls' = calls + 1
    /\ UNCHANGED <<thread, finishOrder>>

\* A table that hands out the slot of a closed file again.
Allocate_ReuseTombstone(table, file) ==
    IF \E i \in 1..Len(table) : table[i] = None
    THEN LET i == CHOOSE i \in 1..Len(table) :
                     table[i] = None /\ \A j \in 1..(i - 1) : table[j] # None
         IN  [table |-> [table EXCEPT ![i] = Some(file)], fd |-> i - 1]
    ELSE [table |-> Append(table, Some(file)), fd |-> Len(table)]

\* table.push(Some(file)); table.len() - 1
Allocate(table, file) ==
    LET pushed == Append(table, Some(file))
    IN  [table |-> pushed, fd |-> Len(pushed) - 1]

\* if let Some(Some(file)) = ft.get_mut(fd as usize)
SlotLive(table, fd) == fd < Len(table) /\ table[fd + 1] # None

\* An open that takes the open_file path whatever the flags.
OpenSucceeds_IgnoresFlag(dir, p, creat) == dir[p] # None

\* root_dir.create_file(p) / root_dir.open_file(p): create_file opens the
\* file if it is there and makes it (empty) if not; open_file needs it there.
OpenSucceeds(dir, p, creat) == creat \/ dir[p] # None
DirAfterOpen(dir, p, creat) ==
    IF creat /\ dir[p] = None THEN [dir EXCEPT ![p] = Some(<<>>)] ELSE dir

\* fatfs_open(p, flags)
FatfsOpen(t, p, creat) ==
    /\ CanCall(t)
    /\ Len(FTABLE[t]) < MaxTable
    /\ IF OpenSucceeds(FS_RAW[t], p, creat)
       THEN LET a == Allocate(FTABLE[t], [name |-> p, pos |-> 0]) IN
            /\ FS_RAW' = [FS_RAW EXCEPT ![t] = DirAfterOpen(@, p, creat)]
            /\ FTABLE' = [FTABLE EXCEPT ![t] = a.table]
            /\ handles' = [handles EXCEPT ![t] = Append(@, a.fd)]
            /\ ServiceReturn(t, "open", a.fd, "Ok", a.fd, <<>>)
       ELSE \* expect("open file failed.")
            /\ ServicePanic(t, "open", 0)
            /\ UNCHANGED <<FS_RAW, FTABLE, handles>>
    /\ UNCHANGED <<args, isols, mainPc, idx, preloaded, preloadFailed, joinHandles,
                   appResult, abortCause, log, spawnCount, joinCount, closed>>

\* file.read(buf): up to buf.len() bytes from the file's offset, which moves on.
FileRead(file, bytes, len) ==
    LET n == Min(len, Len(bytes) - file.pos)
    IN  [file |-> [file EXCEPT !.pos = @ + n],
         n    |-> n,
         data |-> SubSeq(bytes, file.pos + 1, file.pos + n)]

\* fatfs_read(fd, buf)
FatfsRead(t, fd, len) ==
    /\ CanCall(t)
    /\ IF SlotLive(FTABLE[t], fd)
       THEN LET file == FTABLE[t][fd + 1][1]
                r == FileRead(file, FS_RAW[t][file.name][1], len) IN
            /\ FTABLE' = [FTABLE EXCEPT ![t][fd + 1] = Some(r.file)]
            /\ ServiceReturn(t, "read", fd, "Ok", r.n, r.data)
       ELSE \* panic!("fd don't exist")
            /\ ServicePanic(t, "read", fd)
            /\ UNCHANGED FTABLE
    /\ UNCHANGED <<args, isols, mainPc, idx, preloaded, preloadFailed, joinHandles,
                   appResult, abortCause, log, spawnCount, joinCount, FS_RAW,
                   handles, closed>>

\* A single file.write(buf) that takes the first byte only.
FileWrite_Short(file, bytes, buf) ==
    LET part == SubSeq(buf, 1, Min(1, Len(buf)))
        end == file.pos + Len(part)
        grown == IF end > Len(bytes) THEN end ELSE Len(bytes)
    IN  [file  |-> [file EXCEPT !.pos = end],
         bytes |-> [k \in 1..grown |->
                       IF k > file.pos /\ k <= end THEN part[k - file.pos] ELSE bytes[k]]]

\* file.write_all(buf); file.flush(): the bytes go in at the file's offset,
\* over what is there and growing the file, and the offset moves on.
FileWrite(file, bytes, buf) ==
    LET end == file.pos + Len(buf)
        grown == IF end > Len(bytes) THEN end ELSE Len(bytes)
    IN  [file  |-> [file EXCEPT !.pos = end],
         bytes |-> [k \in 1..grown |->
                       IF k > file.pos /\ k <= end THEN buf[k - file.pos] ELSE bytes[k]]]

\* fatfs_write(fd, buf)
FatfsWrite(t, fd, buf) ==
    /\ CanCall(t)
    /\ IF SlotLive(FTABLE[t], fd)
       THEN LET file == FTABLE[t][fd + 1][1]
                w == FileWrite(file, FS_RAW[t][file.name][1], buf) IN
            /\ Len(w.bytes) <= MaxFileLen
            /\ FTABLE' = [FTABLE EXCEPT ![t][fd + 1] = Some(w.file)]
            /\ FS_RAW' = [FS_RAW EXCEPT ![t][file.name] = Some(w.bytes)]
            /\ ServiceReturn(t, "write", fd, "Ok", Len(buf), <<>>)
       ELSE \* panic!("fd don't exist")
            /\ ServicePanic(t, "write", fd)
            /\ UNCHANGED <<FTABLE, FS_RAW>>
    /\ UNCHANGED <<args, isols, mainPc, idx, preloaded, preloadFailed, joinHandles,
                   appResult, abortCause, log, spawnCount, joinCount, handles, closed>>

\* A close that takes the slot out of the Vec (Vec::remove).
CloseTable_Compacting(table, fd) ==
    IF fd < Len(table)
    THEN [table |-> SubSeq(table, 1, fd) \o SubSeq(table, fd + 2, Len(table)),
          old   |-> table[fd + 1]]
    ELSE [table |-> table, old |-> None]

\* if (fd as usize) < ftable.len() { std::mem::swap(&mut ftable[fd], &mut old_file) }
CloseTable(table, fd) ==
    IF fd < Len(table)
    THEN [table |-> [table EXCEPT ![fd + 1] = None], old |-> table[fd + 1]]
    ELSE [table |-> table, old |-> None]

\* fatfs_close(fd)
FatfsClose(t, fd) ==
    /\ CanCall(t)
    /\ LET c == CloseTable(FTABLE[t], fd) IN
       /\ FTABLE' = [FTABLE EXCEPT ![t] = c.table]
       /\ IF c.old # None
          THEN /\ closed' = [closed EXCEPT ![t] = @ \cup {fd}]
               /\ ServiceReturn(t, "close", fd, "Ok", 0, <<>>)
          ELSE /\ UNCHANGED closed
               /\ ServiceReturn(t, "close", fd, "Err", 0, <<>>)
    /\ UNCHANGED <<args, isols, mainPc, idx, preloaded, preloadFailed, joinHandles,
                   appResult, abortCause, log, spawnCount, joinCount, FS_RAW, handles>>

NextFatfs ==
    \/ \E t \in Indices, p \in Names, creat \in BOOLEAN : FatfsOpen(t, p, creat)
    \/ \E t \in Indices, fd \in Fds, len \in ReadLens : FatfsRead(t, fd, len)
    \/ \E t \in Indices, fd \in Fds, buf \in WriteBufs : FatfsWrite(t, fd, buf)
    \/ \E t \in Indices, fd \in Fds : FatfsClose(t, fd)

\* The isolation threads that use the services.
FsThreads == {1, 2}

-----------------------------------------------------------------------------
(***************************************************************************)
(* Typed buffer channel                                                    *)
(*                                                                         *)
(* A fingerprint is a u64, written as four 16-bit limbs, lowest first.     *)
(***************************************************************************)

\* v as *const u64 of a negative i64 v of the given magnitude: 2^64 - |v|.
ReinterpretNegI64(mag) ==
    LET inv == [k \in 1..4 |-> 65535 - mag[k]]
        carry[k \in 1..4] == IF k = 1 THEN 1 ELSE (inv[k - 1] + carry[k - 1]) \div 65536
    IN  [k \in 1..4 |-> (inv[k] + carry[k]) % 65536]

\* impl Verify for (): let v: i64 = -2542357861231615084
UnitFingerprint == ReinterpretNegI64(<<56428, 15009, 17665, 9032>>)

\* The types buffers are made of: () and a two-valued type T1 whose Verify
\* is derived.
Types == {"unit", "T1"}

\* __fingerprint() of a type whose Verify is derived.
DerivedFingerprint(T) == <<1, 0, 0, 0>>

\* T::__fingerprint()
Fingerprint(T) == IF T = "unit" THEN UnitFingerprint ELSE DerivedFingerprint(T)

\* The values of a type, and T::default().
Values(T) == IF T = "unit" THEN {0} ELSE {0, 1}
Default(T) == 0

\* Slot names: String::new() and one named slot.
Slots == {"", "s"}

NoBufOp == [ctx |-> 0, op |-> "none", res |-> "none", buf |-> 0]

InitBuffer ==
    /\ slotTab = [sl \in Slots |-> None]
    /\ heap = <<>>
    /\ bufs = <<>>
    /\ deallocs = <<>>
    /\ sent = <<>>
    /\ bufRet = NoBufOp
    /\ bufOps = 0

\* Code of an isolation runs on its thread while the process lives.
Runs(c) ==
    /\ thread[c] = "running"
    /\ mainPc \notin {"aborted", "done"}

\* One more DataBuffer operation.
BufOp ==
    /\ bufOps < MaxBufOps
    /\ bufOps' = bufOps + 1

\* libos!(buffer_alloc(&slot, l, fingerprint)): the service hands out fresh
\* memory and registers it, with the fingerprint, under the slot.
HostBufferAlloc(slot, fingerprint) ==
    LET addr == Len(heap) + 1
    IN  [addr    |-> addr,
         slotTab |-> [slotTab EXCEPT ![slot] = Some([addr |-> addr, fingerprint |-> fingerprint])]]

\* libos!(access_buffer(&slot)): the service hands over what is registered
\* under the slot, once.
HostAccessBuffer(slot) ==
    [meta |-> slotTab[slot], slotTab |-> [slotTab EXCEPT ![slot] = None]]

\* A store through deref_mut that never reaches the buffer.
Store_Lost(cell, v) == cell

\* *t = value through DerefMut; ptr::write(p, T::default())
Store(cell, v) == [cell EXCEPT !.val = v]

\* with_slot: the buffer is allocated under the slot and holds v (T::default()
\* for with_slot itself, the given value for From<T>), used: false.
MakeBuffer(c, op, slot, T, v) ==
    /\ Runs(c)
    /\ BufOp
    /\ Len(heap) < MaxBufs
    /\ LET a == HostBufferAlloc(slot, Fingerprint(T)) IN
       /\ slotTab' = a.slotTab
       /\ heap' = Append(heap, Store(Store([live |-> TRUE, val |-> 0], Default(T)), v))
       /\ sent' = Append(sent, v)
       /\ bufs' = Append(bufs, [ctx |-> c, slot |-> slot, addr |-> a.addr, used |-> FALSE,
                                ty |-> T, state |-> "live"])
       /\ bufRet' = [ctx |-> c, op |-> op, res |-> "Ok", buf |-> Len(bufs) + 1]
    /\ UNCHANGED <<rtVars, fsVars, deallocs>>

\* DataBuffer::<T>::with_slot(slot)
WithSlot(c, slot, T) == MakeBuffer(c, "with_slot", slot, T, Default(T))

\* DataBuffer::<T>::from(value): default() is with_slot(String::new()), then
\* *t = value.
FromValue(c, T, v) == MakeBuffer(c, "from", "", T, v)

\* *buf = v through DerefMut.  A store into memory that was deallocated is
\* undefined: the memory may then hold anything.
DerefMutAssign(b, v) ==
    /\ b \in 1..Len(bufs)
    /\ bufs[b].state = "live"
    /\ Runs(bufs[b].ctx)
    /\ BufOp
    /\ v \in Values(bufs[b].ty)
    /\ LET addr == bufs[b].addr IN
       IF heap[addr].live
       THEN /\ heap' = [heap EXCEPT ![addr] = Store(@, v)]
            /\ sent' = [sent EXCEPT ![addr] = v]
       ELSE /\ \E w \in UNION {Values(T) : T \in Types} :
                  heap' = [heap EXCEPT ![addr] = [@ EXCEPT !.val = w]]
            /\ UNCHANGED sent
    /\ UNCHANGED <<rtVars, fsVars, slotTab, bufs, deallocs, bufRet>>

\* A check that lets every fingerprint through.
FingerprintAccepted_Any(fingerprint, U) == TRUE

\* if fingerprint != T::__fingerprint() { ...; panic!("") }
FingerprintAccepted(fingerprint, U) == fingerprint = Fingerprint(U)

\* An access that treats a missing registration as fatal.
AccessOutcome_NoneIsFatal(meta, U) ==
    IF meta = None THEN "Panic"
    ELSE IF FingerprintAccepted(meta[1].fingerprint, U) THEN "Some" ELSE "Panic"

\* buffer_meta.map(|(raw_ptr, fingerprint)| { if fingerprint != ... { panic!("") }; Self {..} })
AccessOutcome(meta, U) ==
    IF meta = None THEN "None"
    ELSE IF FingerprintAccepted(meta[1].fingerprint, U) THEN "Some" ELSE "Panic"

\* DataBuffer::<U>::from_buffer_slot(slot)
FromBufferSlot(c, slot, U) ==
    /\ Runs(c)
    /\ BufOp
    /\ LET a == HostAccessBuffer(slot)
           o == AccessOutcome(a.meta, U) IN
       /\ slotTab' = a.slotTab
       /\ bufRet' = [ctx |-> c, op |-> "access", res |-> o,
                     buf |-> IF o = "Some" THEN Len(bufs) + 1 ELSE 0]
       /\ bufs' = IF o = "Some"
                  THEN Append(bufs, [ctx |-> c, slot |-> slot, addr |-> a.meta[1].addr,
                                     used |-> TRUE, ty |-> U, state |-> "live"])
                  ELSE bufs
       /\ IF o = "Panic"
          THEN /\ thread' = [thread EXCEPT ![c] = "panicked"]
               /\ finishOrder' = Append(finishOrder, c)
          ELSE UNCHANGED <<thread, finishOrder>>
    /\ UNCHANGED <<rtRest, fsVars, heap, deallocs, sent>>

\* A drop that deallocates whatever the buffer's origin.
DeallocOnDrop_Always(buf) == TRUE

\* A drop that never gives the memory back.
DeallocOnDrop_Never(buf) == FALSE

\* if self.used { ... libos!(buffer_dealloc(ptr as usize, Layout::new::<T>())) }
DeallocOnDrop(buf) == buf.used

\* libos!(buffer_dealloc(addr, layout)): the memory is given back.
HostBufferDealloc(addr) == [heap EXCEPT ![addr] = [@ EXCEPT !.live = FALSE]]

\* Drop for DataBuffer<T>: the buffer goes out of scope.
DropBuffer(b) ==
    /\ b \in 1..Len(bufs)
    /\ bufs[b].state = "live"
    /\ Runs(bufs[b].ctx)
    /\ BufOp
    /\ bufs' = [bufs EXCEPT ![b].state = "dropped"]
    /\ IF DeallocOnDrop(bufs[b])
       THEN /\ deallocs' = Append(deallocs, [addr |-> bufs[b].addr, buf |-> b])
            /\ heap' = HostBufferDealloc(bufs[b].addr)
       ELSE UNCHANGED <<deallocs, heap>>
    /\ UNCHANGED <<rtVars, fsVars, slotTab, sent, bufRet>>

NextBuffer ==
    \/ \E c \in Indices, sl \in Slots, T \in Types : WithSlot(c, sl, T)
    \/ \E c \in Indices, T \in Types : \E v \in Values(T) : FromValue(c, T, v)
    \/ \E b \in 1..Len(bufs) : \E v \in Values(bufs[b].ty) : DerefMutAssign(b, v)
    \/ \E c \in Indices, sl \in Slots, U \in Types : FromBufferSlot(c, sl, U)
    \/ \E b \in 1..Len(bufs) : DropBuffer(b)

-----------------------------------------------------------------------------
(***************************************************************************)
(* Hostcall routing (ms_hostcall/src/lib.rs)                               *)
(***************************************************************************)

\* enum CommonHostCall: the variants, by name.
CommonHostCall ==
    {"Metric", "FsImage",
     "Write", "Open", "Read", "Close", "Connect", "Socket", "Bind", "Accept",
     "Stdout",
     "FatfsOpen", "FatfsWrite", "FatfsRead", "FatfsClose",
     "SmoltcpAddrInfo", "SmoltcpConnect", "SmoltcpSend", "SmoltcpRecv",
     "SmoltcpBind", "SmoltcpAccept", "SmoltcpClose",
     "BufferAlloc", "AccessBuffer", "BufferDealloc",
     "GetTime"}

\* The strings a custom identity is tried with: one that is also the display
\* name of a common call, and one that is not.
CustomNames == {"fatfs_open", "plugin"}

\* enum HostCallID { Common(CommonHostCall), Custom(String) }
Common(hc) == [kind |-> "Common", name |-> hc]

Custom(name) == [kind |-> "Custom", name |-> name]

HostCallID == {Common(hc) : hc \in CommonHostCall} \cup {Custom(n) : n \in CustomNames}

\* A table that sends the host's stdout to the descriptor table.
CommonBelongTo_StdoutToFdtab(hc) ==
    CASE hc \in {"Metric", "FsImage"} -> ""
      [] hc \in {"Write", "Open", "Read", "Close", "Connect", "Socket", "Bind", "Accept",
                 "Stdout"} -> "fdtab"
      [] hc \in {"FatfsOpen", "FatfsWrite", "FatfsRead", "FatfsClose"} -> "fatfs"
      [] hc \in {"SmoltcpAddrInfo", "SmoltcpConnect", "SmoltcpSend", "SmoltcpRecv",
                 "SmoltcpBind", "SmoltcpAccept", "SmoltcpClose"} -> "socket"
      [] hc \in {"BufferAlloc", "AccessBuffer", "BufferDealloc"} -> "buffer"
      [] hc = "GetTime" -> "time"

\* belong_to(): the arms of `HostCallID::Common(common) => match common { .. }`.
\* The match is exhaustive over the enum, so there is no fall-through arm.
CommonBelongTo(hc) ==
    CASE hc \in {"Metric", "FsImage"} -> ""
      [] hc \in {"Write", "Open", "Read", "Close", "Connect", "Socket", "Bind", "Accept"}
            -> "fdtab"
      [] hc = "Stdout" -> "stdio"
      [] hc \in {"FatfsOpen", "FatfsWrite", "FatfsRead", "FatfsClose"} -> "fatfs"
      [] hc \in {"SmoltcpAddrInfo", "SmoltcpConnect", "SmoltcpSend", "SmoltcpRecv",
                 "SmoltcpBind", "SmoltcpAccept", "SmoltcpClose"} -> "socket"
      [] hc \in {"BufferAlloc", "AccessBuffer", "BufferDealloc"} -> "buffer"
      [] hc = "GetTime" -> "time"

\* A lookup that sends every custom identity to the runtime-internal name.
BelongTo_CustomDefaults(id) ==
    IF id.kind = "Common"
    THEN [panics |-> FALSE, name |-> CommonBelongTo(id.name)]
    ELSE [panics |-> FALSE, name |-> ""]

\* HostCallID::belong_to(&self) -> ServiceName; `HostCallID::Custom(_) => todo!()`
\* panics with "not yet implemented" and returns nothing.
BelongTo(id) ==
    IF id.kind = "Common"
    THEN [panics |-> FALSE, name |-> CommonBelongTo(id.name)]
    ELSE [panics |-> TRUE, name |-> ""]

NoRoute == [ctx |-> 0, id |-> Custom(""), res |-> "none", service |-> ""]

InitRouter ==
    /\ routed = <<>>
    /\ lastRoute = NoRoute

\* Isolation thread c resolves the owner of hostcall id.
Route(c, id) ==
    /\ Runs(c)
    /\ Len(routed) < MaxRoutes
    /\ LET r == BelongTo(id) IN
       IF r.panics
       THEN /\ thread' = [thread EXCEPT ![c] = "panicked"]
            /\ finishOrder' = Append(finishOrder, c)
            /\ lastRoute' = [ctx |-> c, id |-> id, res |-> "Panic", service |-> ""]
            /\ UNCHANGED routed
       ELSE /\ routed' = Append(routed, [ctx |-> c, id |-> id, service |-> r.name])
            /\ lastRoute' = [ctx |-> c, id |-> id, res |-> "Ok", service |-> r.name]
            /\ UNCHANGED <<thread, finishOrder>>
    /\ UNCHANGED <<rtRest, fsVars, bufVars>>

NextRouter == \E c \in Indices, id \in HostCallID : Route(c, id)

-----------------------------------------------------------------------------
(***************************************************************************)
(* The fatfs service as its callers' threads run it: fatfs_read and         *)
(* fatfs_write first take the file out of the table under the lock          *)
(* (get_file_mut) and use the reference after the lock is gone.             *)
(***************************************************************************)

\* A table that is one static shared by all threads.
TableOwner_Shared(t) == CHOOSE u \in Indices : \A w \in Indices : u <= w

\* thread_local! { static FTABLE ... }: FTABLE.with() gives the calling
\* thread its own table.
TableOwner(t) == t

NoArgs == [t |-> 0, len |-> 0]

NoWrite == [t |-> 0, name |-> "", fd |-> 0, data |-> <<>>, off |-> 0, before |-> 0]

InitThreads ==
    /\ inflight = [t \in Indices |-> None]
    /\ lastArgs = NoArgs
    /\ opened = [t \in Indices |-> <<>>]
    /\ lastWrite = NoWrite

\* Thread t is between two hostcalls, and one more may begin.
Idle(t) ==
    /\ inflight[t] = None
    /\ calls + Cardinality({u \in Indices : inflight[u] # None}) < MaxThreadCalls

\* Thread t calls fatfs_open(p, flags).
ThreadOpen(t, p, creat) ==
    /\ Idle(t)
    /\ FatfsOpen(TableOwner(t), p, creat)
    /\ lastArgs' = [t |-> t, len |-> 0]
    /\ opened' = IF ret'.res = "Ok"
                 THEN [opened EXCEPT ![TableOwner(t)] = Append(@, creat)]
                 ELSE opened
    /\ UNCHANGED <<inflight, lastWrite>>

\* Thread t calls fatfs_close(fd).
ThreadClose(t, fd) ==
    /\ Idle(t)
    /\ FatfsClose(TableOwner(t), fd)
    /\ lastArgs' = [t |-> t, len |-> 0]
    /\ UNCHANGED <<inflight, opened, lastWrite>>

\* get_file_mut(fd) in thread t's fatfs_read / fatfs_write: the lock is
\* taken, the slot looked up, the address of the File kept and the lock
\* dropped; a missing or empty slot panics.
GetFileMut(t, op, fd, len, buf) ==
    /\ Idle(t)
    /\ CanCall(t)
    /\ LET table == FTABLE[TableOwner(t)] IN
       IF SlotLive(table, fd)
       THEN /\ inflight' = [inflight EXCEPT ![t] =
                    Some([op |-> op, fd |-> fd, len |-> len, buf |-> buf,
                          file |-> table[fd + 1][1], tableLen |-> Len(table)])]
            /\ lastArgs' = [t |-> t, len |-> len]
            /\ UNCHANGED <<rtVars, fsVars, opened, lastWrite>>
       ELSE /\ IF op = "read"
               THEN FatfsRead(TableOwner(t), fd, len)
               ELSE FatfsWrite(TableOwner(t), fd, buf)
            /\ lastArgs' = [t |-> t, len |-> len]
            /\ UNCHANGED <<inflight, opened, lastWrite>>
    /\ UNCHANGED <<bufVars, routeVars>>

\* file.read(buf) through the reference thread t holds.
UseFileRead(t) ==
    /\ inflight[t] # None
    /\ inflight[t][1].op = "read"
    /\ FatfsRead(TableOwner(t), inflight[t][1].fd, inflight[t][1].len)
    /\ inflight' = [inflight EXCEPT ![t] = None]
    /\ lastArgs' = [t |-> t, len |-> inflight[t][1].len]
    /\ UNCHANGED <<opened, lastWrite>>

\* file.write_all(buf); file.flush() through the reference thread t holds.
UseFileWrite(t) ==
    /\ inflight[t] # None
    /\ inflight[t][1].op = "write"
    /\ LET x == inflight[t][1]
           o == TableOwner(t) IN
       /\ FatfsWrite(o, x.fd, x.buf)
       /\ lastWrite' = IF ret'.res = "Ok"
                       THEN [t |-> o, name |-> x.file.name, fd |-> x.fd, data |-> x.buf,
                             off |-> x.file.pos,
                             before |-> Len(FS_RAW[o][x.file.name][1])]
                       ELSE lastWrite
       /\ lastArgs' = [t |-> t, len |-> Len(x.buf)]
    /\ inflight' = [inflight EXCEPT ![t] = None]
    /\ UNCHANGED opened

NextThreads ==
    \/ \E t \in Indices, p \in Names, creat \in BOOLEAN : ThreadOpen(t, p, creat)
    \/ \E t \in Indices, fd \in Fds : ThreadClose(t, fd)
    \/ \E t \in Indices, fd \in Fds, len \in ReadLens :
          GetFileMut(t, "read", fd, len, <<>>)
    \/ \E t \in Indices, fd \in Fds, buf \in WriteBufs :
          GetFileMut(t, "write", fd, Len(buf), buf)
    \/ \E t \in Indices : UseFileRead(t)
    \/ \E t \in Indices : UseFileWrite(t)

-----------------------------------------------------------------------------
(***************************************************************************)
(* Read::read_to_end (ms_std/src/io.rs)                                    *)
(***************************************************************************)

\* let mut buffer = [0; 1024];
ScratchLen == 1024

\* The lengths a read() fills in: a short read and a full scratch buffer.
ChunkLens == {1, ScratchLen}

\* One answer of Read::read(&mut buffer): Ok(n) with n bytes (all `fill`)
\* put at the front of the buffer, or Err(()).
ReadAnswers ==
    {[kind |-> "Ok", n |-> n, fill |-> b] : n \in ChunkLens, b \in Bytes}
        \cup {[kind |-> "Err", n |-> 0, fill |-> 0]}

\* The readers tried: up to MaxReads answers, after which read() gives
\* Ok(0) for good.
Readers == UNION {[1..k -> ReadAnswers] : k \in 0..MaxReads}

\* What the caller's vector holds at the call.
PriorVecs == {<<>>, <<67>>}

\* self.read(&mut buffer) returning Ok(n): the reader has written n bytes.
Filled(buf, a) == [k \in 1..Len(buf) |-> IF k <= a.n THEN a.fill ELSE buf[k]]

\* An extend that takes the whole scratch buffer.
Extend_WholeBuffer(v, buf, s) == v \o buf

\* buf.extend_from_slice(&buffer[0..s])
Extend(v, buf, s) == v \o SubSeq(buf, 1, s)

\* read_to_end is not being called.
IdleReadToEnd ==
    /\ reader = <<>>
    /\ vec = <<>>
    /\ size = 0
    /\ buffer = <<>>
    /\ rtePc = "idle"
    /\ rteRet = None
    /\ prior = <<>>
    /\ chunks = <<>>

\* reader.read_to_end(&mut buf) is about to be called.
InitReadToEnd ==
    /\ reader \in Readers
    /\ vec \in PriorVecs
    /\ size = 0
    /\ buffer = <<>>
    /\ rtePc = "call"
    /\ rteRet = None
    /\ prior = vec
    /\ chunks = <<>>

\* let mut size = 0; let mut buffer = [0; 1024];
ReadToEndEnter ==
    /\ rtePc = "call"
    /\ size' = 0
    /\ buffer' = [k \in 1..ScratchLen |-> 0]
    /\ rtePc' = "loop"
    /\ UNCHANGED <<reader, vec, rteRet, prior, chunks>>

\* One pass of the loop in which read() gives Ok(s), s > 0:
\* size += s; buf.extend_from_slice(&buffer[0..s])
ReadToEndIterate ==
    /\ rtePc = "loop"
    /\ reader # <<>>
    /\ Head(reader).kind = "Ok"
    /\ LET a == Head(reader)
           filled == Filled(buffer, a) IN
       /\ buffer' = filled
       /\ size' = size + a.n
       /\ vec' = Extend(vec, filled, a.n)
       /\ chunks' = Append(chunks, [k \in 1..a.n |-> a.fill])
    /\ reader' = Tail(reader)
    /\ UNCHANGED <<rtePc, rteRet, prior>>

\* The pass in which read() gives Ok(0): break; Ok(size)
ReadToEndBreak ==
    /\ rtePc = "loop"
    /\ reader = <<>>
    /\ rtePc' = "done"
    /\ rteRet' = Some(size)
    /\ UNCHANGED <<reader, vec, size, buffer, prior, chunks>>

\* The pass in which read() gives Err: expect("File::read failed.") panics.
ReadToEndExpectFails ==
    /\ rtePc = "loop"
    /\ reader # <<>>
    /\ Head(reader).kind = "Err"
    /\ rtePc' = "panicked"
    /\ reader' = Tail(reader)
    /\ UNCHANGED <<vec, size, buffer, rteRet, prior, chunks>>

NextReadToEnd ==
    \/ ReadToEndEnter
    \/ ReadToEndIterate
    \/ ReadToEndBreak
    \/ ReadToEndExpectFails

-----------------------------------------------------------------------------
(***************************************************************************)
(* Specifications                                                          *)
(***************************************************************************)

\* The launcher from its start; no service is called.
Init ==
    /\ InitRuntime
    /\ InitFatfs /\ InitBuffer /\ InitRouter /\ InitThreads /\ IdleReadToEnd

NextLauncher == NextRuntime /\ UNCHANGED <<fsVars, bufVars, routeVars, thVars, rteVars>>

SpecRuntime == Init /\ [][NextLauncher]_vars

\* The fatfs service, called by running isolation threads.
InitServices ==
    /\ RuntimeRunning(Cardinality(FsThreads))
    /\ InitFatfs /\ InitBuffer /\ InitRouter /\ InitThreads /\ IdleReadToEnd

NextFatfsService == NextFatfs /\ UNCHANGED <<bufVars, routeVars, thVars, rteVars>>

SpecFatfs == InitServices /\ [][NextFatfsService]_vars

\* The typed buffer channel, used by running isolation threads.
NextBufferService == NextBuffer /\ UNCHANGED <<routeVars, thVars, rteVars>>

SpecBuffer == InitServices /\ [][NextBufferService]_vars

\* The routing lookup, made by running isolation threads.
NextRouterService == NextRouter /\ UNCHANGED <<thVars, rteVars>>

SpecRouter == InitServices /\ [][NextRouterService]_vars

NextThreadsService == NextThreads /\ UNCHANGED <<bufVars, routeVars, rteVars>>

\* The fatfs service with get_file_mut and the use of its reference as
\* separate steps of the calling thread.
SpecFatfsThreads == InitServices /\ [][NextThreadsService]_vars

\* A call of read_to_end on some reader, with some vector.
InitReadToEndCall ==
    /\ RuntimeRunning(Cardinality(FsThreads))
    /\ InitFatfs /\ InitBuffer /\ InitRouter /\ InitThreads /\ InitReadToEnd

NextReadToEndCall ==
    NextReadToEnd /\ UNCHANGED <<rtVars, fsVars, bufVars, routeVars, thVars>>

SpecReadToEnd == InitReadToEndCall /\ [][NextReadToEndCall]_vars

\* The same, with the calling thread kept running: read_to_end is straight
\* code of one thread, which takes its next step whenever it has one.
SpecReadToEndFair == SpecReadToEnd /\ WF_vars(NextReadToEndCall)

-----------------------------------------------------------------------------
(***************************************************************************)
(* Properties of the launcher                                              *)
(***************************************************************************)

\* The launcher has emitted an entry of this kind for isolation i.
Logged(kind, i) ==
    \E k \in 1..Len(log) : log[k] = [kind |-> kind, id |-> isols[i].id]

\* The isolation (its index) a log entry names.
IndexOfId(id) == CHOOSE i \in Indices : isols[i].id = id

\* The join loop has begun.
InJoinLoop == mainPc \in {"join", "log", "metrics", "done"}

\* The join loop's iteration for position i has run to its end.
IterationOver(i) == InJoinLoop /\ i < idx

\* C1: an isolation thread that terminated abnormally has, once joined, its
\* failure logged against its id, and the launcher goes on (it is not aborted).
C1_AbnormalExitLoggedAndLoopContinues ==
    \A i \in Indices :
        (thread[i] = "panicked" /\ joinCount[i] > 0)
            => (mainPc # "aborted" /\ Logged("error", i))

\* C2: an error value returned by isolation k's entry point is logged against
\* k's id and never ends the process: the launcher aborts in the join loop only
\* on a thread that panicked, and when it finishes every isolation has run to
\* completion, has been joined and (metrics enabled) has its metrics reported.
C2_ErrorReturnLoggedSiblingsReported ==
    /\ \A k \in Indices :
          (thread[k] = "returned_err" /\ (IterationOver(k) \/ (idx = k /\ mainPc = "metrics")))
              => Logged("error", k)
    /\ \A k \in Indices :
          Logged("error", k) => thread[k] = "returned_err"
    /\ mainPc = "aborted" =>
          \/ abortCause \in {"preload failed.", "spawn thread failed?"}
          \/ abortCause = "join failed" /\ thread[idx] = "panicked"
    /\ mainPc = "done" =>
          \A i \in Indices :
              /\ Finished(i)
              /\ joinCount[i] = 1
              /\ MetricsWanted => Logged("metrics", i)

\* C2 witness: a finished run of two or more isolations, one of which returned
\* an error, with metrics on.
C2_Witness ==
    /\ mainPc = "done"
    /\ Len(isols) >= 2
    /\ args.metrics = "all"
    /\ \E k \in Indices : thread[k] = "returned_err"
    /\ \E a \in Indices : thread[a] = "returned_ok"

\* C3: what the launcher emits (failure logs and metrics reports) is in
\* isolation-construction order, whatever the order the threads finished in.
C3_ReportsInConstructionOrder ==
    \A p, q \in 1..Len(log) :
        p < q => /\ IndexOfId(log[p].id) <= IndexOfId(log[q].id)
                 /\ log[p].id = log[q].id =>
                        (log[p].kind = "error" /\ log[q].kind = "metrics")

\* C3 witness: isolation 2 finished before isolation 1, and both were reported.
C3_Witness ==
    /\ Len(finishOrder) >= 2
    /\ finishOrder[1] = 2
    /\ finishOrder[2] = 1
    /\ Logged("error", 1)
    /\ Logged("metrics", 1)
    /\ Logged("error", 2)
    /\ Logged("metrics", 2)

\* C4: an isolation's metrics are reported only once its own thread has
\* finished and been joined, and an isolation whose join iteration is over has
\* its metrics reported if and only if the metrics mode is not "none".
C4_MetricsOnlyAfterJoin ==
    \A i \in Indices :
        /\ Logged("metrics", i) =>
              /\ Finished(i)
              /\ joinCount[i] = 1
              /\ joinHandles[i] = "taken"
              /\ args.metrics # "none"
        /\ IterationOver(i) => (Logged("metrics", i) <=> args.metrics # "none")

\* C4 witness: in mode "mem" an isolation's metrics are out while a sibling's
\* thread is still running.
C4_Witness ==
    /\ args.metrics = "mem"
    /\ \E i, j \in Indices : Logged("metrics", i) /\ thread[j] = "running"

\* C5: with preload on, every isolation is preloaded before any thread is
\* spawned, and a failed preload ends the process with no isolation running;
\* with preload off no isolation is preloaded.
C5_PreloadBeforeSpawn ==
    /\ (\E i \in Indices : thread[i] # "unspawned") =>
          (args.preload => preloaded = Indices)
    /\ ~args.preload => (preloaded = {} /\ preloadFailed = {})
    /\ preloadFailed # {} =>
          /\ mainPc = "aborted"
          /\ abortCause = "preload failed."
          /\ \A i \in Indices : thread[i] = "unspawned" /\ spawnCount[i] = 0

\* C5 witness: a preload failed after an earlier isolation had been preloaded.
C5_Witness ==
    /\ preloadFailed # {}
    /\ preloaded # {}

\* C6: each isolation's thread is spawned at most once and joined at most
\* once, and only a spawned thread is joined; when the join loop starts every
\* isolation has exactly one thread, and when the launcher finishes every
\* thread has been joined exactly once and has run exactly once.
C6_SpawnedAndJoinedOnce ==
    /\ \A i \in Indices :
          /\ spawnCount[i] <= 1
          /\ joinCount[i] <= spawnCount[i]
          /\ (thread[i] # "unspawned") <=> (spawnCount[i] = 1)
          /\ Cardinality({k \in 1..Len(finishOrder) : finishOrder[k] = i}) <= 1
    /\ abortCause # "unwrap on None"
    /\ InJoinLoop => \A i \in Indices : spawnCount[i] = 1
    /\ mainPc = "done" =>
          \A i \in Indices :
              /\ joinCount[i] = 1
              /\ Cardinality({k \in 1..Len(finishOrder) : finishOrder[k] = i}) = 1

\* C6 witness: the launcher finished with the largest number of isolations.
C6_Witness ==
    /\ mainPc = "done"
    /\ Len(isols) = MaxIsols

-----------------------------------------------------------------------------
(***************************************************************************)
(* Properties of the fatfs file table                                      *)
(***************************************************************************)

\* The step is a fatfs hostcall.
FatfsCalled == calls' = calls + 1

\* C7: in each thread's table the fds fatfs_open has returned are 0, 1, 2, ...
\* in this order (strictly increasing, none returned twice, closes or not), and
\* right after an open returned h the table has exactly h + 1 slots.
C7_HandlesIncreaseNeverReused ==
    /\ \A t \in Indices :
          /\ \A k \in 1..Len(handles[t]) : handles[t][k] = k - 1
          /\ \A j, k \in 1..Len(handles[t]) : j < k => handles[t][j] < handles[t][k]
    /\ (ret.op = "open" /\ ret.res = "Ok") =>
          /\ Len(FTABLE[ret.t]) = ret.n + 1
          /\ handles[ret.t][Len(handles[ret.t])] = ret.n
          /\ SlotLive(FTABLE[ret.t], ret.n)

\* C7 witness: an open has returned after an earlier handle of the same table
\* was closed.
C7_Witness ==
    /\ ret.op = "open"
    /\ ret.res = "Ok"
    /\ ret.n > 0
    /\ closed[ret.t] # {}

\* C8: a read, a write or a close on a handle that fatfs_close returned Ok for
\* earlier fails as not found: read and write panic with "fd don't exist",
\* close returns Err.
C8_ClosedHandleStaysNotFound ==
    [][(FatfsCalled /\ ret'.op \in {"read", "write", "close"}
                    /\ ret'.fd \in closed[ret'.t])
          => /\ ret'.res = (IF ret'.op = "close" THEN "Err" ELSE "Panic")
             /\ FTABLE' = FTABLE
             /\ FS_RAW' = FS_RAW]_vars

\* C8 witness: a read of a closed handle has failed in a table where another
\* handle was opened after the close.
C8_Witness ==
    /\ ret.op = "read"
    /\ ret.res = "Panic"
    /\ ret.fd \in closed[ret.t]
    /\ Len(FTABLE[ret.t]) > ret.fd + 1
    /\ \E h \in Fds : SlotLive(FTABLE[ret.t], h)

\* C8 witness of the second close: close returned Err for a closed handle.
C8_WitnessSecondClose ==
    /\ ret.op = "close"
    /\ ret.res = "Err"
    /\ ret.fd \in closed[ret.t]

\* C9: fatfs_close(h) leaves the table's length and every slot but h as they
\* were; a close that returns Ok found a file in slot h and leaves it empty, a
\* close that returns Err changes nothing at all.
C9_CloseLeavesTombstone ==
    [][(FatfsCalled /\ ret'.op = "close") =>
          LET t == ret'.t
              h == ret'.fd
          IN  /\ Len(FTABLE'[t]) = Len(FTABLE[t])
              /\ \A i \in 1..Len(FTABLE[t]) : i # h + 1 => FTABLE'[t][i] = FTABLE[t][i]
              /\ \A u \in Indices : u # t => FTABLE'[u] = FTABLE[u]
              /\ FS_RAW' = FS_RAW
              /\ ret'.res = "Ok" => /\ SlotLive(FTABLE[t], h)
                                    /\ ~SlotLive(FTABLE'[t], h)
                                    /\ FTABLE'[t][h + 1] = None
              /\ ret'.res = "Err" => FTABLE' = FTABLE]_vars

\* C9 witness: a close has returned Ok in a table that holds a live handle
\* above and a live handle below the closed one.
C9_Witness ==
    /\ ret.op = "close"
    /\ ret.res = "Ok"
    /\ ret.fd > 0
    /\ SlotLive(FTABLE[ret.t], ret.fd - 1)
    /\ SlotLive(FTABLE[ret.t], ret.fd + 1)
    /\ FTABLE[ret.t][ret.fd + 1] = None

-----------------------------------------------------------------------------
(***************************************************************************)
(* Properties of the typed buffer channel                                  *)
(***************************************************************************)

\* The buffer_dealloc hostcalls issued for an address.
DeallocsOf(addr) == {k \in 1..Len(deallocs) : deallocs[k].addr = addr}

\* Buffer a was made by with_slot / from under the slot that buffer b was
\* later obtained from by from_buffer_slot, with no allocation under that
\* slot in between.
AllocatedFor(a, b) ==
    /\ a < b
    /\ ~bufs[a].used
    /\ bufs[a].slot = bufs[b].slot
    /\ \A x \in (a + 1)..(b - 1) : bufs[x].used \/ bufs[x].slot # bufs[a].slot

\* C10: a buffer obtained by from_buffer_slot is over the memory of the buffer
\* last allocated under that slot, has its type, and, while that memory is
\* allocated, holds the value last stored into it; for that address there is
\* exactly one buffer_dealloc once the obtained buffer is dropped and none
\* before, issued by the obtained buffer and never by the allocating one.
C10_BufferRoundTrip ==
    /\ \A b \in 1..Len(bufs) :
          bufs[b].used =>
              /\ \E a \in 1..Len(bufs) :
                    /\ AllocatedFor(a, b)
                    /\ bufs[a].addr = bufs[b].addr
                    /\ bufs[a].ty = bufs[b].ty
              /\ heap[bufs[b].addr].live => heap[bufs[b].addr].val = sent[bufs[b].addr]
              /\ heap[bufs[b].addr].live <=> bufs[b].state = "live"
              /\ Cardinality(DeallocsOf(bufs[b].addr)) =
                    (IF bufs[b].state = "dropped" THEN 1 ELSE 0)
              /\ \A k \in DeallocsOf(bufs[b].addr) : deallocs[k].buf = b
    /\ \A k \in 1..Len(deallocs) : bufs[deallocs[k].buf].used

\* C10 witness: a value other than the default went from one context to
\* another, and both buffers have been dropped.
C10_Witness ==
    \E a, b \in 1..Len(bufs) :
        /\ bufs[b].used
        /\ AllocatedFor(a, b)
        /\ bufs[a].ctx # bufs[b].ctx
        /\ bufs[a].state = "dropped"
        /\ bufs[b].state = "dropped"
        /\ sent[bufs[b].addr] # Default(bufs[b].ty)
        /\ deallocs = <<[addr |-> bufs[b].addr, buf |-> b]>>

\* C10 witness of the value: the obtained buffer is live in another context
\* and holds the non-default value that was stored.
C10_WitnessValue ==
    \E a, b \in 1..Len(bufs) :
        /\ bufs[b].used
        /\ AllocatedFor(a, b)
        /\ bufs[a].ctx # bufs[b].ctx
        /\ bufs[b].state = "live"
        /\ heap[bufs[b].addr].val = 1
        /\ sent[bufs[b].addr] = 1

-----------------------------------------------------------------------------
(***************************************************************************)
(* Properties of the buffer channel: fingerprints, ownership, empty slots  *)
(***************************************************************************)

\* The fingerprint registered for a slot differs from the one of type U.
ForeignTo(slot, U) ==
    /\ slotTab[slot] # None
    /\ slotTab[slot][1].fingerprint # Fingerprint(U)

\* C11: an access typed as U on a slot whose buffer was allocated under a
\* different fingerprint fails hard (the calling isolation panics) before
\* any handle is returned: no handle is created over the foreign memory and
\* the failed access issues no deallocation hostcall for it.
C11_FingerprintEnforced ==
    [][\A c \in Indices, sl \in Slots, U \in Types :
          (FromBufferSlot(c, sl, U) /\ ForeignTo(sl, U))
              => /\ bufRet'.res = "Panic"
                 /\ thread'[c] = "panicked"
                 /\ bufs' = bufs
                 /\ deallocs' = deallocs
                 /\ heap' = heap]_vars

\* A buffer allocated as one type was accessed as another, and the accessor
\* was stopped.
C11_Witness ==
    /\ bufRet.op = "access"
    /\ bufRet.res = "Panic"
    /\ thread[bufRet.ctx] = "panicked"
    /\ \E a \in 1..Len(bufs) : ~bufs[a].used /\ bufs[a].ty = "T1"
    /\ \A b \in 1..Len(bufs) : ~bufs[b].used

\* The deallocation hostcalls issued by the drop of buffer handle b.
DeallocsBy(b) == {k \in 1..Len(deallocs) : deallocs[k].buf = b}

\* C12: a handle going out of scope issues a deallocation hostcall exactly
\* when it was obtained by access; a handle made by allocate (with_slot, or
\* the conversion from a plain value) never issues one, whatever was
\* written through it before.
C12_DeallocIffAccessed ==
    \A b \in 1..Len(bufs) :
        Cardinality(DeallocsBy(b)) =
            IF bufs[b].used /\ bufs[b].state = "dropped" THEN 1 ELSE 0

\* Both kinds of handle were dropped, the allocating one after a write
\* through it: only the accessor's drop deallocated.
C12_Witness ==
    \E a, b \in 1..Len(bufs) :
        /\ ~bufs[a].used /\ bufs[a].state = "dropped"
        /\ bufs[b].used /\ bufs[b].state = "dropped"
        /\ bufs[b].addr = bufs[a].addr
        /\ heap[bufs[a].addr].val # Default(bufs[a].ty)
        /\ DeallocsBy(a) = {}
        /\ Cardinality(DeallocsBy(b)) = 1

\* C13: an access on a slot with no registered buffer returns None and
\* nothing else happens: no handle is created, no deallocation hostcall is
\* issued, no memory changes and the calling isolation keeps running.
C13_EmptySlotReturnsNone ==
    [][\A c \in Indices, sl \in Slots, U \in Types :
          (FromBufferSlot(c, sl, U) /\ slotTab[sl] = None)
              => /\ bufRet'.res = "None"
                 /\ thread' = thread
                 /\ bufs' = bufs
                 /\ deallocs' = deallocs
                 /\ heap' = heap
                 /\ slotTab' = slotTab]_vars

\* An access found nothing although another slot holds a buffer; the caller
\* runs on and nothing was handed out or given back.
C13_Witness ==
    /\ bufRet.op = "access"
    /\ bufRet.res = "None"
    /\ thread[bufRet.ctx] = "running"
    /\ \E sl \in Slots : slotTab[sl] # None
    /\ \A b \in 1..Len(bufs) : ~bufs[b].used
    /\ deallocs = <<>>

-----------------------------------------------------------------------------
(***************************************************************************)
(* Properties of the routing lookup                                        *)
(***************************************************************************)

\* The owner of each common hostcall, row by row.
OwnerTable ==
    {<<"Metric", "">>, <<"FsImage", "">>,
     <<"Read", "fdtab">>, <<"Write", "fdtab">>, <<"Open", "fdtab">>, <<"Close", "fdtab">>,
     <<"Connect", "fdtab">>, <<"Socket", "fdtab">>, <<"Bind", "fdtab">>,
     <<"Accept", "fdtab">>,
     <<"Stdout", "stdio">>,
     <<"FatfsOpen", "fatfs">>, <<"FatfsRead", "fatfs">>, <<"FatfsWrite", "fatfs">>,
     <<"FatfsClose", "fatfs">>,
     <<"SmoltcpAddrInfo", "socket">>, <<"SmoltcpConnect", "socket">>,
     <<"SmoltcpSend", "socket">>, <<"SmoltcpRecv", "socket">>,
     <<"SmoltcpBind", "socket">>, <<"SmoltcpAccept", "socket">>,
     <<"SmoltcpClose", "socket">>,
     <<"BufferAlloc", "buffer">>, <<"AccessBuffer", "buffer">>,
     <<"BufferDealloc", "buffer">>,
     <<"GetTime", "time">>}

\* C14: the lookup is a total function over the common hostcalls and agrees
\* with the owner table: every lookup of a common identity returns, with
\* the one name its row gives; the empty name is returned for metric and
\* fs-image and for nothing else.
C14_RoutingTotalAndAsTabled ==
    /\ lastRoute.res # "none" /\ lastRoute.id.kind = "Common"
          => /\ lastRoute.res = "Ok"
             /\ <<lastRoute.id.name, lastRoute.service>> \in OwnerTable
    /\ \A k \in 1..Len(routed) :
          /\ routed[k].id.kind = "Common"
          /\ <<routed[k].id.name, routed[k].service>> \in OwnerTable
          /\ Cardinality({row \in OwnerTable : row[1] = routed[k].id.name}) = 1
          /\ routed[k].service = "" <=> routed[k].id.name \in {"Metric", "FsImage"}

\* The host's stdout and a runtime-internal call were both resolved.
C14_Witness ==
    /\ Len(routed) = 2
    /\ routed[1].id = Common("Stdout") /\ routed[1].service = "stdio"
    /\ routed[2].id = Common("FsImage") /\ routed[2].service = ""

\* C15: resolving a custom identity never yields a service name: whatever
\* the name, the lookup panics in the calling thread and nothing is resolved.
C15_CustomNeverResolves ==
    /\ \A k \in 1..Len(routed) : routed[k].id.kind # "Custom"
    /\ lastRoute.res # "none" /\ lastRoute.id.kind = "Custom"
          => /\ lastRoute.res = "Panic"
             /\ thread[lastRoute.ctx] = "panicked"

\* A custom identity named like a common call was looked up after that
\* common call had been resolved: the custom one still failed.
C15_Witness ==
    /\ lastRoute.id = Custom("fatfs_open")
    /\ lastRoute.res = "Panic"
    /\ Len(routed) = 1
    /\ routed[1].id = Common("FatfsOpen")

-----------------------------------------------------------------------------
(***************************************************************************)
(* Properties of the fatfs service under its callers' threads              *)
(***************************************************************************)

\* C16: while a read or write of thread t uses the reference it got for
\* handle h after the table lock was released, the table it came from has
\* had no slot appended (nothing was relocated), and slot h still holds the
\* very file the reference was taken to (not emptied, not reassigned).
C16_ReferenceStaysValid ==
    \A t \in Indices :
        inflight[t] # None =>
            LET x == inflight[t][1]
                table == FTABLE[TableOwner(t)]
            IN  /\ Len(table) = x.tableLen
                /\ SlotLive(table, x.fd)
                /\ table[x.fd + 1] = Some(x.file)

\* Thread 1 holds a reference into its table while thread 2 has opened and
\* closed a file of its own under the same handle value.
C16_Witness ==
    /\ inflight[1] # None
    /\ inflight[1][1].fd = 0
    /\ lastArgs.t = 2
    /\ ret.t = 2 /\ ret.op = "close" /\ ret.fd = 0 /\ ret.res = "Ok"
    /\ FTABLE[2] = <<None>>
    /\ FTABLE[1] = <<Some(inflight[1][1].file)>>

\* C17: a fatfs call changes the table of the calling thread only: which
\* handles are live on any other thread, what they resolve to, and the
\* handles that thread was given or has closed, stay as they were.
C17_TablesArePerThread ==
    [][\A u \in Indices :
          u # lastArgs'.t =>
              /\ FTABLE'[u] = FTABLE[u]
              /\ handles'[u] = handles[u]
              /\ closed'[u] = closed[u]
              /\ opened'[u] = opened[u]]_vars

\* The same handle value was given to both threads for different files, and
\* thread 1 has closed its one: thread 2's is still live.
C17_Witness ==
    /\ lastArgs.t = 1
    /\ ret.op = "close" /\ ret.res = "Ok" /\ ret.fd = 0
    /\ handles[1] = <<0>> /\ handles[2] = <<0>>
    /\ FTABLE[1] = <<None>>
    /\ FTABLE[2] = <<Some([name |-> "b", pos |-> 0])>>
    /\ 0 \in closed[1] /\ 0 \notin closed[2]

\* C18: fatfs_open with the create flag succeeds whether or not the file is
\* there, and makes it if it is not; without the flag it succeeds exactly
\* when the file is there.  A failed open gives the caller no handle (its
\* thread panics in the call) and leaves the table and the image as they
\* were: no slot is appended.
C18_OpenCreateAndFailure ==
    [][\A t \in Indices, p \in Names, creat \in BOOLEAN :
          FatfsOpen(t, p, creat) =>
              /\ ret'.res = "Ok" <=> (creat \/ FS_RAW[t][p] # None)
              /\ ret'.res = "Ok" =>
                    /\ FS_RAW'[t][p] # None
                    /\ FS_RAW[t][p] # None => FS_RAW'[t][p] = FS_RAW[t][p]
                    /\ Len(FTABLE'[t]) = Len(FTABLE[t]) + 1
                    /\ FTABLE'[t][ret'.fd + 1] = Some([name |-> p, pos |-> 0])
              /\ ret'.res # "Ok" =>
                    /\ ret'.res = "Panic"
                    /\ thread'[t] = "panicked"
                    /\ FTABLE' = FTABLE
                    /\ FS_RAW' = FS_RAW
                    /\ handles' = handles]_vars

\* An open without the create flag failed on a file that is not there,
\* after an open with the flag had succeeded on another thread for the same
\* name: the failed caller's table has no slot.
C18_Witness ==
    /\ ret.op = "open" /\ ret.res = "Panic"
    /\ thread[ret.t] = "panicked"
    /\ FTABLE[ret.t] = <<>>
    /\ handles[ret.t] = <<>>
    /\ \E u \in Indices :
          /\ FTABLE[u] = <<Some([name |-> "b", pos |-> 0])>>
          /\ FS_RAW[u]["b"] = Some(<<>>)

\* The last step completed a fatfs_read of thread ret.t through a handle
\* that had not been read or written before, on the file the last
\* fatfs_write went to; that write was the first use of another handle of
\* the same thread, opened with the create flag.
ReadBackOfLastWrite ==
    /\ ret.op = "read" /\ ret.res = "Ok"
    /\ lastArgs.t = ret.t
    /\ inflight[ret.t] = None
    /\ lastWrite.t = ret.t
    /\ lastWrite.fd # ret.fd
    /\ lastWrite.off = 0
    /\ opened[ret.t][lastWrite.fd + 1]
    /\ LET f == FTABLE[ret.t][ret.fd + 1][1] IN
       /\ f.name = lastWrite.name
       /\ f.pos = ret.n

\* C19 as stated: after open(name, create) and write(h, data), a read
\* through a fresh handle on the same file, with room for all of data,
\* returns bytes identical to data.
C19_FreshReadReturnsData ==
    ReadBackOfLastWrite /\ lastArgs.len >= Len(lastWrite.data)
        => ret.data = lastWrite.data

\* C19, amended: fatfs_write on a live handle puts all the given bytes into
\* the file at the handle's offset and returns their number (above 0 for a
\* non-empty buffer); after open(name, create) and write(h, data), a read
\* through a fresh handle on the same file with room for all of data
\* returns bytes that begin with data, and exactly data if the buffer is
\* just that long or the file held no more than that before the write.
C19_WriteAllAndReadBackPrefix ==
    /\ ret.op = "write" /\ ret.res = "Ok" =>
          LET bytes == FS_RAW[ret.t][lastWrite.name][1] IN
          /\ lastWrite.t = ret.t /\ lastWrite.fd = ret.fd
          /\ ret.n = Len(lastWrite.data)
          /\ lastWrite.data # <<>> => ret.n > 0
          /\ Len(bytes) >= lastWrite.off + ret.n
          /\ SubSeq(bytes, lastWrite.off + 1, lastWrite.off + ret.n) = lastWrite.data
          /\ FTABLE[ret.t][ret.fd + 1][1].pos = lastWrite.off + ret.n
    /\ ReadBackOfLastWrite /\ lastArgs.len >= Len(lastWrite.data) =>
          /\ ret.n >= Len(lastWrite.data)
          /\ SubSeq(ret.data, 1, Len(lastWrite.data)) = lastWrite.data
          /\ (lastArgs.len = Len(lastWrite.data) \/ lastWrite.before <= Len(lastWrite.data))
                => ret.data = lastWrite.data

\* A file made by open(create) was written with two bytes and read back
\* whole through a second handle.
C19_Witness ==
    /\ ReadBackOfLastWrite
    /\ lastWrite.name = "b"
    /\ lastWrite.before = 0
    /\ lastWrite.data = <<65, 66>>
    /\ ret.data = <<65, 66>>
    /\ ret.n = 2

\* A file that held two bytes was opened with the create flag and written
\* with one: the fresh read returns the new byte and the old second one.
C19_WitnessLongerFile ==
    /\ ReadBackOfLastWrite
    /\ lastWrite.name = "a"
    /\ lastWrite.before = 2
    /\ lastWrite.data = <<66>>
    /\ ret.data = <<66, 66>>

-----------------------------------------------------------------------------
(***************************************************************************)
(* Properties of read_to_end                                               *)
(***************************************************************************)

RECURSIVE Concat(_)
\* The chunks of a sequence, joined in order.
Concat(cs) == IF cs = <<>> THEN <<>> ELSE Head(cs) \o Concat(Tail(cs))

\* Every read() the reader still has to answer gives Ok.
AnswersOk == \A k \in 1..Len(reader) : reader[k].kind = "Ok"

\* C20: on a reader whose reads give Ok until one gives Ok(0), read_to_end
\* comes to its end; when it has, the caller's vector is what it held
\* before followed by the chunks the reads returned, joined in order, and
\* the value returned is the number of bytes so appended.
C20_ReadToEndTerminatesWithAll ==
    /\ (rtePc = "call" /\ AnswersOk) ~> (rtePc = "done")
    /\ [](rtePc = "done" =>
             /\ reader = <<>>
             /\ vec = prior \o Concat(chunks)
             /\ rteRet = Some(Len(Concat(chunks)))
             /\ Len(vec) = Len(prior) + rteRet[1])

\* read_to_end returned after a full scratch buffer of one byte value and a
\* short read of another, appended behind what the vector held.
C20_Witness ==
    /\ rtePc = "done"
    /\ prior = <<67>>
    /\ Len(chunks) = 2
    /\ Len(chunks[1]) = ScratchLen /\ chunks[1][1] = 65
    /\ chunks[2] = <<66>>
    /\ rteRet = Some(ScratchLen + 1)
    /\ vec[1] = 67 /\ vec[2] = 65 /\ vec[ScratchLen + 2] = 66

=============================================================================
